---------------------------- MODULE Spec2Model ----------------------------
(***************************************************************************)
(* A model of the case switcher (src/_strings/case_switcher.py) and of     *)
(* add_working_days (src/datetimes.py) and chained_get (src/dicts.py).      *)
(*                                                                         *)
(* A Python str is a sequence of characters; a character is a string of    *)
(* length one ("a", "_", " ").  A list[str] is a sequence of such          *)
(* sequences.  A raised IndexError is the value IndexError, which is no    *)
(* str because its only element is not a character.                        *)
(***************************************************************************)
EXTENDS Integers, Sequences, FiniteSets, TLC

VARIABLES
    \* switch_case(text, from_case, to_case) and its locals
    text, from_case, to_case, string, items, result, pc,
    \* one call of S.from_case / S.to_case, followed by the opposite one
    op, style, arg, mid, out, cpc,
    \* add_working_days(from_date, working_days, holidays) and its locals
    start_date, from_date, working_days, holidays, working_day_counter, dpc,
    \* chained_get(dictionary, *args, default) and its locals
    dictionary, args, default, value_path, dict_chain, returned, gpc

switch_vars == <<text, from_case, to_case, string, items, result, pc>>
case_vars == <<op, style, arg, mid, out, cpc>>
days_vars == <<start_date, from_date, working_days, holidays, working_day_counter, dpc>>
get_vars == <<dictionary, args, default, value_path, dict_chain, returned, gpc>>
vars == <<switch_vars, case_vars, days_vars, get_vars>>

---------------------------------------------------------------------------
(* Bounds of the model.                                                    *)

\* longest text over ShortAlphabet given to switch_case and to from_case
MaxLen == 3
\* longest text over LongAlphabet given to switch_case
MaxLongLen == 5
\* most characters in a list of words given to to_case
MaxChars == 4
\* most words in a list of words given to to_case
MaxWords == 3
\* largest number of working days added
MaxDays == 3
\* number of consecutive dates a holiday may be drawn from
HolidaySpan == 5
\* deepest nesting of the dictionaries given to chained_get
MaxDepth == 2
\* longest path of keys given to chained_get
MaxPath == 3

---------------------------------------------------------------------------
(* Characters (ASCII).                                                     *)

Lowers == <<"a","b","c","d","e","f","g","h","i","j","k","l","m",
            "n","o","p","q","r","s","t","u","v","w","x","y","z">>
Uppers == <<"A","B","C","D","E","F","G","H","I","J","K","L","M",
            "N","O","P","Q","R","S","T","U","V","W","X","Y","Z">>
LowerSet == {Lowers[i] : i \in 1..26}
UpperSet == {Uppers[i] : i \in 1..26}
DigitSet == {"0","1","2","3","4","5","6","7","8","9"}
Backslash == "\\"
Newline == "\n"

IsLower(c) == c \in LowerSet
IsUpper(c) == c \in UpperSet
IsLetter(c) == IsLower(c) \/ IsUpper(c)
IsDigit(c) == c \in DigitSet
IsAlnum(c) == IsLetter(c) \/ IsDigit(c)
\* the regex class \w on ASCII text
IsWordChar(c) == IsAlnum(c) \/ c = "_"

\* str.lower() and str.upper() of one character
LowerChar(c) == IF IsUpper(c) THEN Lowers[CHOOSE i \in 1..26 : Uppers[i] = c] ELSE c
UpperChar(c) == IF IsLower(c) THEN Uppers[CHOOSE i \in 1..26 : Lowers[i] = c] ELSE c

---------------------------------------------------------------------------
(* Methods of str.                                                         *)

\* str.lower()
lower(s) == [i \in 1..Len(s) |-> LowerChar(s[i])]

\* str.title(): a cased character is upper-cased when the character before
\* it is not cased (or there is none), and lower-cased otherwise.
title(s) ==
    [i \in 1..Len(s) |->
        IF i > 1 /\ IsLetter(s[i-1]) THEN LowerChar(s[i]) ELSE UpperChar(s[i])]

\* sep.join(list), sep a str (possibly empty)
RECURSIVE join(_, _)
join(sep, list) ==
    IF list = <<>> THEN <<>>
    ELSE IF Len(list) = 1 THEN list[1]
    ELSE list[1] \o sep \o join(sep, Tail(list))

\* s.split(sep), sep one character: the pieces between the separators,
\* empty pieces included; "".split(sep) is [""].
RECURSIVE SplitFrom(_, _, _, _)
SplitFrom(s, sep, i, piece) ==
    IF i > Len(s) THEN <<piece>>
    ELSE IF s[i] = sep THEN <<piece>> \o SplitFrom(s, sep, i + 1, <<>>)
    ELSE SplitFrom(s, sep, i + 1, Append(piece, s[i]))
split(s, sep) == SplitFrom(s, sep, 1, <<>>)

---------------------------------------------------------------------------
(* The regular expressions the module uses (Python re, str patterns).      *)

\* \b at offset i of s (between s[i] and s[i+1]): exactly one side is a
\* word character; the ends of the string count as non-word.
AtWordBoundary(s, i) ==
    LET before == i >= 1 /\ IsWordChar(s[i])
        after == i < Len(s) /\ IsWordChar(s[i+1])
    IN  before /= after

\* "." of a regex: any character but a newline
DotMatches(c) == c /= Newline

\* SubLowerUpper for r"([a-z\d])([A-Z])": a digit before an upper-case letter too
RECURSIVE SubLowerUpperFrom_Digit(_, _)
SubLowerUpperFrom_Digit(s, i) ==
    IF i > Len(s) THEN <<>>
    ELSE IF i < Len(s) /\ (IsLower(s[i]) \/ IsDigit(s[i])) /\ IsUpper(s[i+1])
         THEN <<s[i], "_", s[i+1]>> \o SubLowerUpperFrom_Digit(s, i + 2)
    ELSE <<s[i]>> \o SubLowerUpperFrom_Digit(s, i + 1)
SubLowerUpper_Digit(s) == SubLowerUpperFrom_Digit(s, 1)

\* SubLowerUpper for r"(?<=[A-Za-z])([A-Z])": before every upper-case letter
\* that follows a letter
RECURSIVE SubLowerUpperFrom_AnyLetter(_, _)
SubLowerUpperFrom_AnyLetter(s, i) ==
    IF i > Len(s) THEN <<>>
    ELSE IF i > 1 /\ IsLetter(s[i-1]) /\ IsUpper(s[i])
         THEN <<"_", s[i]>> \o SubLowerUpperFrom_AnyLetter(s, i + 1)
    ELSE <<s[i]>> \o SubLowerUpperFrom_AnyLetter(s, i + 1)
SubLowerUpper_AnyLetter(s) == SubLowerUpperFrom_AnyLetter(s, 1)

\* re.sub(r"([a-z])([A-Z])", r"\1_\2", s): matches are found left to right
\* and do not overlap; each is two characters long.
RECURSIVE SubLowerUpperFrom(_, _)
SubLowerUpperFrom(s, i) ==
    IF i > Len(s) THEN <<>>
    ELSE IF i < Len(s) /\ IsLower(s[i]) /\ IsUpper(s[i+1])
         THEN <<s[i], "_", s[i+1]>> \o SubLowerUpperFrom(s, i + 2)
    ELSE <<s[i]>> \o SubLowerUpperFrom(s, i + 1)
SubLowerUpper(s) == SubLowerUpperFrom(s, 1)

---------------------------------------------------------------------------
(* The five cases.                                                         *)

SNAKE_CASE == "SNAKE_CASE"
KEBAB_CASE == "KEBAB_CASE"
CAMEL_CASE == "CAMEL_CASE"
PASCAL_CASE == "PASCAL_CASE"
DOT_CASE == "DOT_CASE"
Case == {SNAKE_CASE, KEBAB_CASE, CAMEL_CASE, PASCAL_CASE, DOT_CASE}

\* what string[0] raises on an empty string
IndexError == <<"IndexError">>

SnakeCase_from_case(t) == split(t, "_")
SnakeCase_to_case(words) == lower(join(<<"_">>, words))

KebabCase_from_case(t) == split(t, "-")
\* KebabCase.to_case that joins with "_"
KebabCase_to_case_Underscore(words) == lower(join(<<"_">>, words))
KebabCase_to_case(words) == lower(join(<<"-">>, words))

DotCase_from_case(t) == split(t, ".")
DotCase_to_case(words) == lower(join(<<".">>, words))

CamelCase_from_case(t) == split(SubLowerUpper(t), "_")
CamelCase_to_case(words) ==
    LET joined == join(<<>>, [i \in 1..Len(words) |-> title(words[i])])
    IN  IF joined = <<>> THEN IndexError
        ELSE <<LowerChar(joined[1])>> \o Tail(joined)

\* PascalCase.to_case that joins the words as they are
PascalCase_to_case_NoTitle(words) == join(<<>>, words)

PascalCase_from_case(t) == split(SubLowerUpper(t), "_")
PascalCase_to_case(words) == join(<<>>, [i \in 1..Len(words) |-> title(words[i])])

\* case.value.from_case(text)
value_from_case(case, t) ==
    CASE case = SNAKE_CASE -> SnakeCase_from_case(t)
      [] case = KEBAB_CASE -> KebabCase_from_case(t)
      [] case = DOT_CASE -> DotCase_from_case(t)
      [] case = CAMEL_CASE -> CamelCase_from_case(t)
      [] case = PASCAL_CASE -> PascalCase_from_case(t)

\* case.value.to_case(words)
value_to_case(case, words) ==
    CASE case = SNAKE_CASE -> SnakeCase_to_case(words)
      [] case = KEBAB_CASE -> KebabCase_to_case(words)
      [] case = DOT_CASE -> DotCase_to_case(words)
      [] case = CAMEL_CASE -> CamelCase_to_case(words)
      [] case = PASCAL_CASE -> PascalCase_to_case(words)

\* the character class of case.value._pattern, \b<class>+\b
InPatternClass(case, c) ==
    CASE case = SNAKE_CASE -> IsWordChar(c)
      [] case = KEBAB_CASE -> IsAlnum(c) \/ c = "-"
      [] case = DOT_CASE -> IsAlnum(c) \/ c = "."
      [] case = CAMEL_CASE -> IsAlnum(c)
      [] case = PASCAL_CASE -> IsAlnum(c)

\* s[i+1..j] is a match of case.value.pattern
IsPatternMatch(case, s, i, j) ==
    /\ i < j
    /\ AtWordBoundary(s, i)
    /\ \A k \in (i+1)..j : InPatternClass(case, s[k])
    /\ AtWordBoundary(s, j)

\* PatternMatchEnd with a lazy <class>+?: the shortest match
PatternMatchEnd_Lazy(case, s, i) ==
    LET ends == {j \in (i+1)..Len(s) : IsPatternMatch(case, s, i, j)}
    IN  IF ends = {} THEN i ELSE CHOOSE j \in ends : \A k \in ends : j <= k

\* The end of the match of case.value.pattern that starts at offset i of s,
\* or i when there is none: <class>+ is greedy and gives characters back
\* until the closing \b holds, so the match is the longest one.
PatternMatchEnd(case, s, i) ==
    LET ends == {j \in (i+1)..Len(s) : IsPatternMatch(case, s, i, j)}
    IN  IF ends = {} THEN i ELSE CHOOSE j \in ends : \A k \in ends : k <= j

\* The [start offset, end offset] spans of re.finditer(case.value.pattern, s)
\* from offset i on: leftmost first, the next search starts where a match ends.
RECURSIVE PatternSpansFrom(_, _, _)
PatternSpansFrom(case, s, i) ==
    IF i >= Len(s) THEN <<>>
    ELSE LET j == PatternMatchEnd(case, s, i)
         IN  IF j = i THEN PatternSpansFrom(case, s, i + 1)
             ELSE <<(<<i, j>>)>> \o PatternSpansFrom(case, s, j)

\* re.findall(case.value.pattern, s)
findall(case, s) ==
    LET spans == PatternSpansFrom(case, s, 0)
    IN  [n \in 1..Len(spans) |-> SubSeq(s, spans[n][1] + 1, spans[n][2])]

\* A character p of the pattern built from an item matches c.  An item is a
\* match of some case's pattern, so of its characters only "." is special
\* to re (letters, digits, "_" and a "-" outside a class are literals).
ItemCharMatches(p, c) == IF p = "." THEN DotMatches(c) ELSE p = c

\* f"\\b{item}\\b" matches s[i+1..i+Len(item)]
ItemMatchesAt(item, s, i) ==
    /\ i + Len(item) <= Len(s)
    /\ AtWordBoundary(s, i)
    /\ \A k \in 1..Len(item) : ItemCharMatches(item[k], s[i+k])
    /\ AtWordBoundary(s, i + Len(item))

\* re.sub(f"\\b{item}\\b", repl, s): every non-overlapping match, leftmost
\* first, is replaced by repl; the \b are judged on s itself.  repl holds no
\* backslash (it is made of the characters of an item and of "_", "-", "."),
\* so it is inserted as it is.
RECURSIVE SubItemFrom(_, _, _, _)
SubItemFrom(item, repl, s, i) ==
    IF i >= Len(s) THEN <<>>
    ELSE IF ItemMatchesAt(item, s, i)
         THEN repl \o SubItemFrom(item, repl, s, i + Len(item))
    ELSE <<s[i+1]>> \o SubItemFrom(item, repl, s, i + 1)
sub(item, repl, s) == SubItemFrom(item, repl, s, 0)

\* re.search(f"^{case.value.pattern}$", t).  case.value.pattern is the
\* compiled pattern, and an f-string formats it by its repr, so the regular
\* expression searched for is ^re.compile('\\b\\w+\\b')$ for snake case and
\* ^re.compile('\\b[\\dA-Za-z-]+\\b')$ for kebab case (likewise the others):
\* r, e, any character, c, o, m, p, i, l, e, a group holding a quote, a
\* literal backslash, b, the body, a literal backslash, b and a quote.  The
\* body is a backslash and one or more w for snake case, and otherwise one or
\* more characters of the class that holds the backslash, d, the letters and
\* the separator of the case.  $ matches at the end of t and before a newline
\* that ends t.
InReprBody(case, body) ==
    IF case = SNAKE_CASE
    THEN /\ Len(body) >= 2
         /\ body[1] = Backslash
         /\ \A k \in 2..Len(body) : body[k] = "w"
    ELSE /\ Len(body) >= 1
         /\ \A k \in 1..Len(body) :
               \/ body[k] = Backslash
               \/ body[k] = "d"
               \/ IsLetter(body[k])
               \/ case = KEBAB_CASE /\ body[k] = "-"
               \/ case = DOT_CASE /\ body[k] = "."

ReprHead == <<"c","o","m","p","i","l","e","'",Backslash,"b">>
ReprTail == <<Backslash,"b","'">>

MatchesRepr(case, u) ==
    /\ Len(u) >= 3 + Len(ReprHead) + 1 + Len(ReprTail)
    /\ u[1] = "r" /\ u[2] = "e" /\ DotMatches(u[3])
    /\ SubSeq(u, 4, 3 + Len(ReprHead)) = ReprHead
    /\ InReprBody(case, SubSeq(u, 4 + Len(ReprHead), Len(u) - Len(ReprTail)))
    /\ SubSeq(u, Len(u) - Len(ReprTail) + 1, Len(u)) = ReprTail

SearchAnchoredRepr(case, t) ==
    \/ MatchesRepr(case, t)
    \/ /\ Len(t) >= 1
       /\ t[Len(t)] = Newline
       /\ MatchesRepr(case, SubSeq(t, 1, Len(t) - 1))

\* _switch_case(text, from_case, to_case)
_switch_case(t, from, to) == value_to_case(to, value_from_case(from, t))

---------------------------------------------------------------------------
(* The texts given to switch_case and to from_case.                        *)

ShortAlphabet == {"a", "A", "1", "_", "-", ".", " "}
LongAlphabet == {"a", "A", ".", "-"}

Strings(alphabet, n) == UNION {[1..k -> alphabet] : k \in 0..n}

\* texts in each of the cases, a sentence holding a snake case name, a name
\* that starts with an acronym
SNAKE_EXAMPLE == <<"s","n","a","k","e","_","c","a","s","e","_","e","x","a","m","p","l","e">>
KEBAB_EXAMPLE == <<"k","e","b","a","b","-","c","a","s","e","-","e","x","a","m","p","l","e">>
DOT_EXAMPLE == <<"d","o","t",".","c","a","s","e",".","e","x","a","m","p","l","e">>
CAMEL_EXAMPLE == <<"c","a","m","e","l","C","a","s","e","E","x","a","m","p","l","e">>
COLUMN_EXAMPLE == <<"T","h","e"," ","c","o","l","u","m","n","_","n","a","m","e"," ","i","s"," ","h","e","r","e">>
ACRONYM_EXAMPLE == <<"H","T","T","P","S","e","r","v","e","r">>
\* a text that the search of switch_case's first statement matches (for snake case)
REPR_EXAMPLE == <<"r","e",".","c","o","m","p","i","l","e","'","\\","b","\\","w","\\","b","'">>

Examples == {
    SNAKE_EXAMPLE,
    KEBAB_EXAMPLE,
    DOT_EXAMPLE,
    CAMEL_EXAMPLE,
    COLUMN_EXAMPLE,
    ACRONYM_EXAMPLE,
    REPR_EXAMPLE }

Texts == Strings(ShortAlphabet, MaxLen) \cup Strings(LongAlphabet, MaxLongLen) \cup Examples

---------------------------------------------------------------------------
(* switch_case(text, from_case, to_case), a statement at a time.           *)

SwitchIdle ==
    /\ text = <<>> /\ from_case = SNAKE_CASE /\ to_case = SNAKE_CASE
    /\ string = <<>> /\ items = <<>> /\ result = <<>> /\ pc = "idle"

\* the call: any text, any two cases
SwitchInit ==
    /\ text \in Texts
    /\ from_case \in Case
    /\ to_case \in Case
    /\ string = <<>>
    /\ items = <<>>
    /\ result = <<>>
    /\ pc = "call"

\* if re.search(f"^{from_case.value.pattern}$", text):
\*     return _switch_case(text, from_case, to_case)
ReturnWhole ==
    /\ pc = "call"
    /\ SearchAnchoredRepr(from_case, text)
    /\ LET converted == _switch_case(text, from_case, to_case)
       IN  IF converted = IndexError
           THEN pc' = "raised" /\ result' = result
           ELSE pc' = "done" /\ result' = converted
    /\ UNCHANGED <<text, from_case, to_case, string, items, case_vars, days_vars, get_vars>>

\* string = text
\* for item in re.findall(from_case.value.pattern, string):
\* (findall returns its list before the first iteration)
FindItems ==
    /\ pc = "call"
    /\ ~SearchAnchoredRepr(from_case, text)
    /\ string' = text
    /\ items' = findall(from_case, text)
    /\ pc' = "loop"
    /\ UNCHANGED <<text, from_case, to_case, result, case_vars, days_vars, get_vars>>

\* string = re.sub(f"\\b{item}\\b", _switch_case(item, from_case, to_case), string)
ReplaceItem ==
    /\ pc = "loop"
    /\ items /= <<>>
    /\ LET item == Head(items)
           converted == _switch_case(item, from_case, to_case)
       IN  IF converted = IndexError
           THEN pc' = "raised" /\ UNCHANGED <<string, items>>
           ELSE /\ string' = sub(item, converted, string)
                /\ items' = Tail(items)
                /\ pc' = pc
    /\ UNCHANGED <<text, from_case, to_case, result, case_vars, days_vars, get_vars>>

\* ReturnString that returns _switch_case(string, from_case, to_case)
ReturnString_Switched ==
    /\ pc = "loop"
    /\ items = <<>>
    /\ result' = _switch_case(string, from_case, to_case)
    /\ pc' = "done"
    /\ UNCHANGED <<text, from_case, to_case, string, items, case_vars, days_vars, get_vars>>

\* return string
ReturnString ==
    /\ pc = "loop"
    /\ items = <<>>
    /\ result' = string
    /\ pc' = "done"
    /\ UNCHANGED <<text, from_case, to_case, string, items, case_vars, days_vars, get_vars>>

---------------------------------------------------------------------------
(* One case class used on its own: to_case then from_case on a list of     *)
(* words, or from_case then to_case on a text.                             *)

WordAlphabet == {"a", "A", "1"}

\* the lists of at most k words that hold at most n characters in all
RECURSIVE WordListsOf(_, _)
WordListsOf(n, k) ==
    IF k = 0 THEN {<<>>}
    ELSE {<<>>} \cup
         UNION {{<<w>> \o rest : rest \in WordListsOf(n - Len(w), k - 1)} :
                    w \in Strings(WordAlphabet, n)}

WordLists == WordListsOf(MaxChars, MaxWords)

CaseTexts == Strings(ShortAlphabet, MaxLen) \cup Strings(WordAlphabet, MaxChars) \cup Examples

CaseIdle ==
    /\ op = "none" /\ style = SNAKE_CASE /\ arg = <<>> /\ mid = <<>>
    /\ out = <<>> /\ cpc = "idle"

CaseInit ==
    /\ style \in Case
    /\ \/ op = "to_case" /\ arg \in WordLists
       \/ op = "from_case" /\ arg \in CaseTexts
    /\ mid = <<>>
    /\ out = <<>>
    /\ cpc = "call"

\* mid = S.to_case(arg)
ToCase ==
    /\ cpc = "call"
    /\ op = "to_case"
    /\ LET joined == value_to_case(style, arg)
       IN  IF joined = IndexError
           THEN cpc' = "raised" /\ mid' = mid
           ELSE cpc' = "joined" /\ mid' = joined
    /\ UNCHANGED <<op, style, arg, out, switch_vars, days_vars, get_vars>>

\* out = S.from_case(mid)
FromCaseOfJoined ==
    /\ cpc = "joined"
    /\ out' = value_from_case(style, mid)
    /\ cpc' = "done"
    /\ UNCHANGED <<op, style, arg, mid, switch_vars, days_vars, get_vars>>

\* mid = S.from_case(arg)
FromCase ==
    /\ cpc = "call"
    /\ op = "from_case"
    /\ mid' = value_from_case(style, arg)
    /\ cpc' = "split"
    /\ UNCHANGED <<op, style, arg, out, switch_vars, days_vars, get_vars>>

\* out = S.to_case(mid)
ToCaseOfSplit ==
    /\ cpc = "split"
    /\ LET joined == value_to_case(style, mid)
       IN  IF joined = IndexError
           THEN cpc' = "raised" /\ out' = out
           ELSE cpc' = "done" /\ out' = joined
    /\ UNCHANGED <<op, style, arg, mid, switch_vars, days_vars, get_vars>>

---------------------------------------------------------------------------
(* add_working_days(from_date, working_days, holidays).  A date is its     *)
(* proleptic Gregorian ordinal (date.toordinal()): day 1 is a Monday.      *)

\* date.weekday(): Monday is 0, Sunday is 6
weekday(date) == (date + 6) % 7

\* _is_working_day with weekday() < 6: a Saturday is a working day
_is_working_day_Saturday(date, hols) ==
    /\ weekday(date) < 6
    /\ date \notin hols

_is_working_day(date, hols) ==
    /\ weekday(date) < 5
    /\ date \notin hols

DaysIdle ==
    /\ start_date = 0 /\ from_date = 0 /\ working_days = 0 /\ holidays = {}
    /\ working_day_counter = 0 /\ dpc = "idle"

\* the call: a start date on each day of the week, holidays among the start
\* date and the dates that follow it, a count that may be zero or negative
DaysInit ==
    /\ start_date \in 1..7
    /\ from_date = start_date
    /\ working_days \in (-1)..MaxDays
    /\ holidays \in SUBSET {start_date + k : k \in 0..HolidaySpan}
    /\ working_day_counter = 0
    /\ dpc = "call"

\* working_day_counter = 0
EnterLoop ==
    /\ dpc = "call"
    /\ working_day_counter' = 0
    /\ dpc' = "while"
    /\ UNCHANGED <<start_date, from_date, working_days, holidays, switch_vars, case_vars, get_vars>>

\* while working_day_counter < working_days:
\*     from_date += datetime.timedelta(days=1)
\*     if _is_working_day(from_date, holidays):
\*         working_day_counter += 1
NextDay ==
    /\ dpc = "while"
    /\ working_day_counter < working_days
    /\ from_date' = from_date + 1
    /\ working_day_counter' =
           IF _is_working_day(from_date', holidays)
           THEN working_day_counter + 1
           ELSE working_day_counter
    /\ UNCHANGED <<start_date, working_days, holidays, dpc, switch_vars, case_vars, get_vars>>

\* return from_date
ReturnDate ==
    /\ dpc = "while"
    /\ ~(working_day_counter < working_days)
    /\ dpc' = "done"
    /\ UNCHANGED <<start_date, from_date, working_days, holidays, working_day_counter,
                   switch_vars, case_vars, get_vars>>

---------------------------------------------------------------------------
(* chained_get(dictionary, *args, default).  A Python value is a record    *)
(* with its kind: None, an int, or a dict with its items (a function from  *)
(* the keys it holds to values).                                           *)

NoneValue == [kind |-> "None"]
IntValue(n) == [kind |-> "int", val |-> n]
DictValue(f) == [kind |-> "dict", items |-> f]

\* hasattr(v, "get"): of the values of the model only a dict has .get
HasGet(v) == v.kind = "dict"

\* dict.get(key): the value of the key, None when the dict has no such key
dict_get(d, key) == IF key \in DOMAIN d.items THEN d.items[key] ELSE NoneValue

Keys == {"a", "b"}
Leaves == {NoneValue, IntValue(1)}
Defaults == {NoneValue, IntValue(0)}

\* the values nested at most depth deep
RECURSIVE ValuesOfDepth(_)
ValuesOfDepth(depth) ==
    IF depth = 0 THEN Leaves
    ELSE Leaves \cup
         {DictValue(f) :
             f \in UNION {[K -> ValuesOfDepth(depth - 1)] : K \in SUBSET Keys}}

Dictionaries == {v \in ValuesOfDepth(MaxDepth) : v.kind = "dict"}
Paths == UNION {[1..n -> Keys] : n \in 0..MaxPath}

GetIdle ==
    /\ dictionary = NoneValue /\ args = <<>> /\ default = NoneValue
    /\ value_path = <<>> /\ dict_chain = NoneValue /\ returned = NoneValue
    /\ gpc = "idle"

\* the call: any dictionary, any path of keys, a default that is None (the
\* default of the parameter) or a value no dictionary holds
GetInit ==
    /\ dictionary \in Dictionaries
    /\ args \in Paths
    /\ default \in Defaults
    /\ value_path = <<>>
    /\ dict_chain = NoneValue
    /\ returned = NoneValue
    /\ gpc = "call"

\* value_path = list(args)
\* dict_chain = dictionary
EnterGet ==
    /\ gpc = "call"
    /\ value_path' = args
    /\ dict_chain' = dictionary
    /\ gpc' = "while"
    /\ UNCHANGED <<dictionary, args, default, returned, switch_vars, case_vars, days_vars>>

\* while value_path:
\*     try:
\*         dict_chain = dict_chain.get(value_path.pop(0))
GetKey ==
    /\ gpc = "while"
    /\ value_path /= <<>>
    /\ HasGet(dict_chain)
    /\ dict_chain' = dict_get(dict_chain, Head(value_path))
    /\ value_path' = Tail(value_path)
    /\ UNCHANGED <<dictionary, args, default, returned, gpc, switch_vars, case_vars, days_vars>>

\*     except AttributeError:
\*         return default
\* (dict_chain.get is looked up, and raises, before pop(0) is evaluated)
ReturnDefault ==
    /\ gpc = "while"
    /\ value_path /= <<>>
    /\ ~HasGet(dict_chain)
    /\ returned' = default
    /\ gpc' = "done"
    /\ UNCHANGED <<dictionary, args, default, value_path, dict_chain,
                   switch_vars, case_vars, days_vars>>

\* return dict_chain
ReturnChain ==
    /\ gpc = "while"
    /\ value_path = <<>>
    /\ returned' = dict_chain
    /\ gpc' = "done"
    /\ UNCHANGED <<dictionary, args, default, value_path, dict_chain,
                   switch_vars, case_vars, days_vars>>

---------------------------------------------------------------------------
(* The specifications.                                                     *)

Init == SwitchInit /\ CaseIdle /\ DaysIdle /\ GetIdle
Next == ReturnWhole \/ FindItems \/ ReplaceItem \/ ReturnString
Spec == Init /\ [][Next]_vars

InitCase == SwitchIdle /\ CaseInit /\ DaysIdle /\ GetIdle
NextCase == ToCase \/ FromCaseOfJoined \/ FromCase \/ ToCaseOfSplit
SpecCase == InitCase /\ [][NextCase]_vars

InitDays == SwitchIdle /\ CaseIdle /\ DaysInit /\ GetIdle
NextDays == EnterLoop \/ NextDay \/ ReturnDate
\* a call that has started runs on: nothing but the loop itself can stop it
SpecDays == InitDays /\ [][NextDays]_vars /\ WF_vars(NextDays)

InitGet == SwitchIdle /\ CaseIdle /\ DaysIdle /\ GetInit
NextGet == EnterGet \/ GetKey \/ ReturnDefault \/ ReturnChain
SpecGet == InitGet /\ [][NextGet]_vars

---------------------------------------------------------------------------
(* What the claims speak of.                                               *)

\* t as a whole is one match of the pattern of the case
IsToken(case, t) == IsPatternMatch(case, t, 0, Len(t))

\* the call of switch_case has ended
Ended == pc \in {"done", "raised"}

\* The pieces of s outside the matches of the pattern of the case: before
\* the first match, between two matches, after the last match.
Gaps(case, s) ==
    LET spans == PatternSpansFrom(case, s, 0)
        n == Len(spans)
    IN  [k \in 1..(n + 1) |->
            SubSeq(s, (IF k = 1 THEN 0 ELSE spans[k-1][2]) + 1,
                      IF k = n + 1 THEN Len(s) ELSE spans[k][1])]

\* g is in r at offset p
OccursAt(g, r, p) == p + Len(g) <= Len(r) /\ SubSeq(r, p + 1, p + Len(g)) = g

\* The offset in r after gaps[k], ..., gaps[Len(gaps)-1] have been found in
\* r one after the other from offset p on, each at its first place; -1 when
\* one of them is not found.
RECURSIVE PlaceGaps(_, _, _, _)
PlaceGaps(gaps, k, r, p) ==
    IF k > Len(gaps) - 1 THEN p
    ELSE LET at == {q \in p..Len(r) : OccursAt(gaps[k], r, q)}
         IN  IF at = {} THEN -1
             ELSE PlaceGaps(gaps, k + 1, r,
                            (CHOOSE q \in at : \A q2 \in at : q <= q2) + Len(gaps[k]))

\* r is gaps[1], something, gaps[2], something, ..., gaps[n]
GapsKept(gaps, r) ==
    LET n == Len(gaps)
    IN  IF n = 1 THEN r = gaps[1]
        ELSE /\ OccursAt(gaps[1], r, 0)
             /\ LET p == PlaceGaps(gaps, 2, r, Len(gaps[1]))
                IN  /\ p >= 0
                    /\ Len(r) - Len(gaps[n]) >= p
                    /\ OccursAt(gaps[n], r, Len(r) - Len(gaps[n]))


\* what the calls on the example texts are said to return, and return
SNAKE_EXAMPLE_PASCAL == <<"S","n","a","k","e","C","a","s","e","E","x","a","m","p","l","e">>
COLUMN_CLAIMED == <<"T","h","e"," ","C","o","l","u","m","n","N","a","m","e"," ","i","s"," ","h","e","r","e">>
COLUMN_RETURNED == <<"T","h","e"," ","C","o","l","u","m","n","N","a","m","e"," ","I","s"," ","H","e","r","e">>

---------------------------------------------------------------------------
(* C1 *)

\* C1: when the whole text is one match of the pattern of from_case, the
\* call of switch_case ends as to_case.to_case(from_case.from_case(text))
\* does: it returns the value of that expression, and raises only where the
\* expression raises.
C1_WholeTokenIsSwitched ==
    (Ended /\ IsToken(from_case, text)) =>
        LET converted == _switch_case(text, from_case, to_case)
        IN  IF converted = IndexError THEN pc = "raised"
            ELSE pc = "done" /\ result = converted

\* the snake case name was found by findall and replaced by its Pascal form
C1_Witness ==
    /\ pc = "done"
    /\ ~SearchAnchoredRepr(from_case, text)
    /\ text = SNAKE_EXAMPLE
    /\ IsToken(from_case, text)
    /\ from_case = SNAKE_CASE
    /\ to_case = PASCAL_CASE
    /\ result = SNAKE_EXAMPLE_PASCAL

---------------------------------------------------------------------------
(* C2 *)

\* C2: the pieces of the text outside every match of the pattern of
\* from_case are in the returned string, unchanged and in their order, with
\* the rewritten matches between them.
C2_OutsideMatchesUnchanged ==
    pc = "done" => GapsKept(Gaps(from_case, text), result)

---------------------------------------------------------------------------
(* C3 *)

\* C3: no call of switch_case raises.
C3_NeverRaises == pc /= "raised"

---------------------------------------------------------------------------
(* C4 *)

\* C4: when the pattern of from_case matches nowhere in the text, the call
\* returns the text as it is; switch_case("", SNAKE, CAMEL) returns "".
C4_NoMatchReturnsText ==
    /\ (Ended /\ findall(from_case, text) = <<>>) => (pc = "done" /\ result = text)
    /\ (Ended /\ text = <<>> /\ from_case = SNAKE_CASE /\ to_case = CAMEL_CASE)
           => (pc = "done" /\ result = <<>>)

\* a text of separators only was returned as it is
C4_Witness ==
    /\ pc = "done"
    /\ Len(text) >= 2
    /\ findall(from_case, text) = <<>>
    /\ result = text

---------------------------------------------------------------------------
(* C5 *)

\* C5 as claimed: switch_case("The column_name is here", SNAKE, PASCAL)
\* returns "The ColumnName is here".
C5_OnlyMultiWordTokenRewritten ==
    (Ended /\ text = COLUMN_EXAMPLE /\ from_case = SNAKE_CASE /\ to_case = PASCAL_CASE)
        => (pc = "done" /\ result = COLUMN_CLAIMED)

\* C5 amended: switch_case("The column_name is here", SNAKE, PASCAL) returns
\* "The ColumnName Is Here": every word of the sentence is a match of the
\* snake case pattern and is rewritten to its Pascal form.
C5_EveryWordRewritten ==
    (Ended /\ text = COLUMN_EXAMPLE /\ from_case = SNAKE_CASE /\ to_case = PASCAL_CASE)
        => (pc = "done" /\ result = COLUMN_RETURNED)

\* the call on the sentence has returned
C5_Witness ==
    /\ pc = "done"
    /\ text = COLUMN_EXAMPLE
    /\ from_case = SNAKE_CASE
    /\ to_case = PASCAL_CASE
    /\ Len(result) = Len(text) - 1

---------------------------------------------------------------------------
(* C6 *)

SeparatorCases == {SNAKE_CASE, KEBAB_CASE, DOT_CASE}
CapitalCases == {CAMEL_CASE, PASCAL_CASE}

\* a nonempty list of nonempty words of letters and digits
IsAlnumText(t) == \A i \in 1..Len(t) : IsAlnum(t[i])
AlnumWords(words) ==
    /\ Len(words) >= 1
    /\ \A i \in 1..Len(words) : Len(words[i]) >= 1 /\ IsAlnumText(words[i])

\* the i-th word in the casing of the case: lower-cased for snake, kebab and
\* dot, title-cased for Pascal, title-cased with the first character of the
\* first word lower-cased for camel
Normalized(case, words, i) ==
    IF case \in SeparatorCases THEN lower(words[i])
    ELSE IF case = PASCAL_CASE \/ i > 1 THEN title(words[i])
    ELSE <<LowerChar(title(words[1])[1])>> \o Tail(title(words[1]))

\* got is the list of words, each one in the casing of the case
IsNormalizedList(case, words, got) ==
    /\ Len(got) = Len(words)
    /\ \A i \in 1..Len(words) : got[i] = Normalized(case, words, i)

\* every word but the last ends, in the casing of the case, in a lower-case
\* letter, and the word after it starts with a letter
SplitsAtEveryJoin(case, words) ==
    \A i \in 1..(Len(words) - 1) :
        /\ IsLower(Normalized(case, words, i)[Len(words[i])])
        /\ IsLetter(words[i+1][1])

\* C6 as claimed: for each case S and nonempty list W of alphanumeric
\* words, S.from_case(S.to_case(W)) is W, each word in the casing of S.
C6_JoinThenSplit ==
    (op = "to_case" /\ cpc = "done" /\ AlnumWords(arg))
        => IsNormalizedList(style, arg, out)

\* C6 amended: that holds for snake, kebab and dot; for camel and Pascal it
\* holds exactly when every word but the last ends, in the casing of the
\* case, in a lower-case letter and is followed by a word that starts with a
\* letter, and otherwise words run together and the list returned is shorter
\* than W.
C6_JoinThenSplitWhereSplit ==
    (op = "to_case" /\ cpc \in {"done", "raised"} /\ AlnumWords(arg)) =>
        /\ cpc = "done"
        /\ style \in SeparatorCases => IsNormalizedList(style, arg, out)
        /\ style \in CapitalCases =>
              /\ IsNormalizedList(style, arg, out) <=> SplitsAtEveryJoin(style, arg)
              /\ ~SplitsAtEveryJoin(style, arg) => Len(out) < Len(arg)

\* two words were joined in Pascal case and split again into two
C6_Witness ==
    /\ op = "to_case"
    /\ cpc = "done"
    /\ style = PASCAL_CASE
    /\ AlnumWords(arg)
    /\ Len(arg) = 2
    /\ SplitsAtEveryJoin(style, arg)
    /\ out = <<title(arg[1]), title(arg[2])>>

---------------------------------------------------------------------------
(* C7 *)

\* C7: for each case S and text x that as a whole is one match of the
\* pattern of S, S.to_case(S.from_case(x)) is x up to the case of its
\* letters, and is x lower-cased for snake, kebab and dot.
C7_SplitThenJoin ==
    (op = "from_case" /\ cpc \in {"done", "raised"} /\ IsToken(style, arg)) =>
        /\ cpc = "done"
        /\ lower(out) = lower(arg)
        /\ style \in SeparatorCases => out = lower(arg)

\* the Pascal name that starts with an acronym came back in another casing
C7_Witness ==
    /\ op = "from_case"
    /\ cpc = "done"
    /\ style = PASCAL_CASE
    /\ arg = ACRONYM_EXAMPLE
    /\ IsToken(style, arg)
    /\ out /= arg
    /\ lower(out) = lower(arg)

---------------------------------------------------------------------------
(* C8 *)

\* C8: for every case S, S.to_case of the empty list of words returns the
\* empty string.
C8_EmptyListJoinsToEmpty ==
    (op = "to_case" /\ arg = <<>> /\ cpc /= "call")
        => (cpc /= "raised" /\ mid = <<>>)

---------------------------------------------------------------------------
(* C9 *)

\* the places of t where a lower-case letter is followed by an upper-case one
LowerUpperPlaces(t) == {i \in 1..(Len(t) - 1) : IsLower(t[i]) /\ IsUpper(t[i+1])}

\* the places of the concatenation of the words where one word ends and the
\* next begins
CutPlaces(words) ==
    {Len(join(<<>>, SubSeq(words, 1, k))) : k \in 1..(Len(words) - 1)}

\* C9: camel and Pascal from_case cut a text of letters and digits exactly
\* where a lower-case letter is followed by an upper-case letter, and
\* nowhere else; from_case("HTTPServer") is the one word "HTTPServer".
C9_SplitsAtLowerUpperOnly ==
    (op = "from_case" /\ cpc /= "call" /\ style \in CapitalCases) =>
        /\ IsAlnumText(arg) =>
              /\ join(<<>>, mid) = arg
              /\ Len(mid) = Cardinality(LowerUpperPlaces(arg)) + 1
              /\ CutPlaces(mid) = LowerUpperPlaces(arg)
        /\ arg = ACRONYM_EXAMPLE => mid = <<ACRONYM_EXAMPLE>>

\* camel from_case has returned the name that starts with an acronym whole
C9_Witness ==
    /\ op = "from_case"
    /\ cpc = "split"
    /\ style = CAMEL_CASE
    /\ arg = ACRONYM_EXAMPLE
    /\ LowerUpperPlaces(arg) = {}
    /\ mid = <<arg>>

---------------------------------------------------------------------------
(* C10 *)

\* a date that is neither a Saturday nor a Sunday nor a holiday
IsWorkingDate(date, hols) == weekday(date) \notin {5, 6} /\ date \notin hols

\* the number of working days after date a, up to and including date b
WorkingDatesBetween(a, b, hols) ==
    Cardinality({d \in (a + 1)..b : IsWorkingDate(d, hols)})

\* the date returned is the working_days-th working day after the start date
ReturnsNthWorkingDay ==
    dpc = "done" =>
        IF working_days <= 0 THEN from_date = start_date
        ELSE /\ from_date > start_date
             /\ IsWorkingDate(from_date, holidays)
             /\ WorkingDatesBetween(start_date, from_date, holidays) = working_days

---------------------------------------------------------------------------
(* C11 *)

\* every key of the path is a key of the dictionary found so far
RECURSIVE PathExists(_, _)
PathExists(v, path) ==
    IF path = <<>> THEN TRUE
    ELSE /\ v.kind = "dict"
         /\ Head(path) \in DOMAIN v.items
         /\ PathExists(v.items[Head(path)], Tail(path))

\* the value stored at a path that exists
RECURSIVE ValueAt(_, _)
ValueAt(v, path) ==
    IF path = <<>> THEN v ELSE ValueAt(v.items[Head(path)], Tail(path))

\* C11: chained_get returns the value stored at the path when every key of
\* the path exists, and the default whenever the path does not exist, also
\* when only the last key is missing from an inner dictionary that exists.
C11_ValueOrDefault ==
    gpc = "done" =>
        IF PathExists(dictionary, args)
        THEN returned = ValueAt(dictionary, args)
        ELSE returned = default

---------------------------------------------------------------------------
(* C12 *)

\* the word with its first letter upper-cased and its other letters
\* lower-cased; characters that are no letters stay as they are
Capitalized(w) ==
    LET letters == {i \in 1..Len(w) : IsLetter(w[i])}
    IN  [i \in 1..Len(w) |->
            IF i \in letters /\ \A j \in letters : i <= j
            THEN UpperChar(w[i])
            ELSE LowerChar(w[i])]

\* C12: Pascal to_case returns the words, each with its first letter
\* upper-cased and its other letters lower-cased, one after the other with
\* nothing between them; camel to_case returns that string with its first
\* character lower-cased.  Words with digits between letters included.
C12_CapitalizesEachWord ==
    (op = "to_case" /\ cpc \in {"joined", "done"} /\ style \in CapitalCases) =>
        LET joined == join(<<>>, [i \in 1..Len(arg) |-> Capitalized(arg[i])])
        IN  IF style = PASCAL_CASE THEN mid = joined
            ELSE joined /= <<>> /\ mid = <<LowerChar(joined[1])>> \o Tail(joined)

---------------------------------------------------------------------------
(* C13 *)

\* s with every match of the pattern of the case from, from the k-th on,
\* replaced by its form in the case to, and the text outside the matches
\* as it is; spans are the matches, at is the offset reached
RECURSIVE RewrittenFrom(_, _, _, _, _, _)
RewrittenFrom(from, to, s, spans, k, at) ==
    IF k > Len(spans) THEN SubSeq(s, at + 1, Len(s))
    ELSE SubSeq(s, at + 1, spans[k][1])
         \o _switch_case(SubSeq(s, spans[k][1] + 1, spans[k][2]), from, to)
         \o RewrittenFrom(from, to, s, spans, k + 1, spans[k][2])
RewrittenOnce(from, to, s) ==
    RewrittenFrom(from, to, s, PatternSpansFrom(from, s, 0), 1, 0)

\* C13: the string returned is the text with each match t of the pattern of
\* from_case replaced by to_case.to_case(from_case.from_case(t)), computed
\* once from t as it is in the text; no match is converted a second time.
\* Stated for the calls that reach the loop over the matches and whose
\* items are literal patterns (no item of the dot case holds a ".").
C13_EachTokenRewrittenOnce ==
    (/\ pc = "done"
     /\ ~SearchAnchoredRepr(from_case, text)
     /\ from_case = DOT_CASE => \A i \in 1..Len(text) : text[i] /= ".")
        => result = RewrittenOnce(from_case, to_case, text)

===========================================================================
